---- MODULE Spec2Model ----
(***************************************************************************)
(* Model of 001_plot_envelopes_3d.py: the beam-envelope sizer, the three   *)
(* cross-section constructors, the ruled-surface mesher and the two plot   *)
(* pipelines (plot_beam_size, plot_apertures).                             *)
(*                                                                         *)
(* Every function of the script is pure, so the state is one call: which   *)
(* function runs (op), its arguments (inp), whether it has run (pc) and    *)
(* what it returned or raised (out).  Arrays are functions over 0..n-1.    *)
(* Lengths are integers in a fixed unit; angles theta are counted in       *)
(* quarter turns, for which cos and sin are exactly -1, 0 or 1.            *)
(***************************************************************************)
EXTENDS Integers, Sequences, FiniteSets

VARIABLES pc, op, inp, out

vars == <<pc, op, inp, out>>

\* ---------------------------------------------------------------- bounds
MaxSlices == 4
MaxPoints == 4
MaxCoord == 1
MaxExtent == 2
MaxRadius == 2
MaxRows == 3
MaxLen == 4
MaxBeta == 2
MaxDisp == 1

\* ---------------------------------------------------------------- helpers
\* range(n)
Range(n) == 0 .. (n - 1)

\* len() of an array
Size(a) == Cardinality(DOMAIN a)

\* The elements of a set of integers in ascending order (the order in which
\* a comprehension over range(...) or np.where(...) visits them), 0-based.
RECURSIVE Ascending(_)
Ascending(S) ==
    IF S = {} THEN <<>>
    ELSE LET m == CHOOSE x \in S : \A y \in S : x <= y
         IN <<m>> \o Ascending(S \ {m})

\* ---------------------------------------------------------------- mesher
\* vertices = pts.reshape(-1, 3): row r of the buffer is pts[r // P][r % P]
Reshape(num_polys, points_per_poly, pts) ==
    [r \in Range(num_polys * points_per_poly) |->
        pts[r \div points_per_poly][r % points_per_poly]]

NumFacesNoMinusOne(num_polys, points_per_poly) ==
    points_per_poly * (num_polys - 1)

\* num_faces = points_per_poly * (num_polys - 1) - 1
NumFaces(num_polys, points_per_poly) ==
    points_per_poly * (num_polys - 1) - 1

KeepFaceFirstVertex(i, points_per_poly, close) ==
    close \/ (i % points_per_poly /= 0)

\* if close or (i % points_per_poly != points_per_poly - 1)
KeepFace(i, points_per_poly, close) ==
    close \/ (i % points_per_poly /= points_per_poly - 1)

\* [4, i, i + 1, points_per_poly + i + 1, points_per_poly + i]
Face(i, points_per_poly) ==
    <<4, i, i + 1, points_per_poly + i + 1, points_per_poly + i>>

\* mesh_from_polygons(pts, close): pts has shape (num_polys, points_per_poly, 3).
\* np.hstack of an empty list raises ValueError, so no surface is returned
\* when the comprehension yields no face.
mesh_from_polygons(num_polys, points_per_poly, pts, close) ==
    LET vertices == Reshape(num_polys, points_per_poly, pts)
        num_faces == NumFaces(num_polys, points_per_poly)
        kept == {i \in Range(num_faces) : KeepFace(i, points_per_poly, close)}
        order == Ascending(kept)
        faces == [k \in Range(Len(order)) |-> Face(order[k + 1], points_per_poly)]
    IN IF kept = {}
       THEN [status |-> "ValueError", vertices |-> <<>>, faces |-> <<>>]
       ELSE [status |-> "ok", vertices |-> vertices, faces |-> faces]

\* A batch of polygons whose points are pairwise distinct: point j of
\* slice i.
PolyPoint(i, j) == <<j, j * j, i>>

Polygons(num_polys, points_per_poly) ==
    [i \in Range(num_polys) |-> [j \in Range(points_per_poly) |-> PolyPoint(i, j)]]


\* ---------------------------------------------------------------- geometry
\* Angles theta in quarter turns: cos and sin are exact.
Thetas == {0, 1, 2, 3}

CosQ(q) == <<1, 0, -1, 0>>[(q % 4) + 1]

SinQ(q) == <<0, 1, 0, -1>>[(q % 4) + 1]

RotZInverse(theta, p) ==
    << CosQ(theta) * p[1] + SinQ(theta) * p[2],
       CosQ(theta) * p[2] - SinQ(theta) * p[1],
       p[3] >>

\* Rotation.from_euler('z', theta).apply(p) for one point p
RotZ(theta, p) ==
    << CosQ(theta) * p[1] - SinQ(theta) * p[2],
       SinQ(theta) * p[1] + CosQ(theta) * p[2],
       p[3] >>

\* Rotation.from_euler('z', theta).apply(points) for an array of points
RotZApply(theta, points) == [k \in DOMAIN points |-> RotZ(theta, points[k])]

\* points + np.tile([x, y, z], (len(points), 1))
Translate(points, x, y, z) ==
    [k \in DOMAIN points |->
        <<points[k][1] + x, points[k][2] + y, points[k][3] + z>>]

\* World positions handed to the constructors.
Positions == {<<a, b, a + b + 1>> : a, b \in (-MaxCoord) .. MaxCoord}

\* ---------------------------------------------------------------- ellipse
\* Number of samples of the ellipse: np.linspace(0, 2 * np.pi, 20)
Resolution == 20

\* 2 * np.pi in angle units chosen so that a full turn divides by both
\* Resolution and Resolution - 1.
FullTurn == Resolution * (Resolution - 1)

\* np.linspace(start, stop, num): endpoint included, step (stop-start)/(num-1)
Linspace(start, stop, num) ==
    [k \in Range(num) |-> start + k * ((stop - start) \div (num - 1))]

\* Lengths returned by ellipse are in 1/Milli of the unit of its arguments.
Milli == 10 * 10 * 10

\* 1000*cos and 1000*sin at the multiples of a 19th of a full turn
CosTable ==
    <<1000, 946, 789, 547, 245, -83, -402, -677, -879, -986,
      -986, -879, -677, -402, -83, 245, 547, 789, 946>>

SinTable ==
    <<0, 325, 614, 837, 969, 997, 916, 736, 476, 165,
      -165, -476, -736, -916, -997, -969, -837, -614, -325>>

TableIndex(t) == ((t % FullTurn) \div (FullTurn \div Len(CosTable))) + 1

\* np.cos(t), np.sin(t), times Milli
Cos(t) == CosTable[TableIndex(t)]

Sin(t) == SinTable[TableIndex(t)]

\* ellipse(rxy, rz, beam_xy, beam_z, x, y, z, theta)
ellipse(rxy, rz, beam_xy, beam_z, x, y, z, theta) ==
    LET ts == Linspace(0, FullTurn, Resolution)
        points_xz == [k \in DOMAIN ts |->
                        << rxy * Cos(ts[k]) + beam_xy * Milli,
                           0,
                           rz * Sin(ts[k]) + beam_z * Milli >>]
    IN [ts |-> ts,
        local |-> points_xz,
        points |-> Translate(RotZApply(theta, points_xz),
                             x * Milli, y * Milli, z * Milli)]

\* ---------------------------------------------------------------- screens
\* make_screen(xs, ys, x, y, z, theta)
make_screen(xs, ys, x, y, z, theta) ==
    LET points_xz == [k \in DOMAIN xs |-> <<xs[k], 0, ys[k]>>]
    IN [local |-> points_xz,
        points |-> Translate(RotZApply(theta, points_xz), x, y, z)]

\* make_rectangular_screen(x_min, x_max, y_min, y_max, x, y, z, theta, close)
make_rectangular_screen(x_min, x_max0, y_min, y_max, x, y, z, theta, close) ==
    LET x_max == IF ~close THEN 0 ELSE x_max0
        points_xz == [k \in Range(4) |->
                        << <<x_max, 0, y_min>>,
                           <<x_min, 0, y_min>>,
                           <<x_min, 0, y_max>>,
                           <<x_max, 0, y_max>> >>[k + 1]]
    IN [local |-> points_xz,
        points |-> Translate(RotZApply(theta, points_xz), x, y, z)]

\* Point counts of the discrete polygons handed to make_screen.
ScreenSizes == {1, 2}

\* ---------------------------------------------------------------- envelope sizer
\* Floats: a value v, or NaN.  Lengths returned by compute_beam_size are in
\* units of 1e-4 m for beta functions and dispersions given in metres.
Float(v) == [nan |-> FALSE, v |-> v]

NaN == [nan |-> TRUE, v |-> 0]

\* nemitt_x = 2.5e-6, nemitt_y = 2.5e-6, in units of 1e-8 m rad
nemitt_x == 250

nemitt_y == 250

\* n_sigmas = 3
n_sigmas == 3

\* sigma_delta = 8e-4, in units of 1e-4
sigma_delta == 8

\* Values of twiss.gamma0 (positive).
Gammas == {1, 10}

AbsIdentity(v) == v

\* abs(dx)
Abs(v) == IF v < 0 THEN -v ELSE v

\* np.sqrt(v): NaN for a negative argument, else the root (rounded down)
Sqrt(v) ==
    IF v < 0 THEN NaN
    ELSE Float(CHOOSE r \in 0 .. v : r * r <= v /\ v < (r + 1) * (r + 1))

\* n_sigmas * np.sqrt(nemitt / gamma0 * beta) + abs(d) * sigma_delta
Sigma(nemitt, gamma0, beta, d) ==
    LET root == Sqrt((nemitt \div gamma0) * beta)
    IN IF root.nan THEN NaN
       ELSE Float(n_sigmas * root.v + Abs(d) * sigma_delta)

\* compute_beam_size(survey, twiss)
compute_beam_size(survey, twiss) ==
    [s |-> twiss.s, x |-> twiss.x, y |-> twiss.y,
     sigx |-> [i \in DOMAIN twiss.betx |->
                 Sigma(nemitt_x, twiss.gamma0, twiss.betx[i], twiss.dx[i])],
     sigy |-> [i \in DOMAIN twiss.bety |->
                 Sigma(nemitt_y, twiss.gamma0, twiss.bety[i], twiss.dy[i])],
     sx |-> survey.X, sy |-> survey.Y, sz |-> survey.Z,
     theta |-> survey.theta]

\* ---------------------------------------------------------------- plot_beam_size
\* scale = 3e2
Scale == 300

MinLenIsOpticsLength(n, m) == n

\* min(len(x), len(theta))
MinLen(n, m) == IF n < m THEN n ELSE m

\* a[:k]
Take(a, k) == [i \in Range(k) \cap DOMAIN a |-> a[i]]

\* plot_beam_size, from the selected rows tw and sv on: the ellipses, the
\* envelope mesh and the closed-orbit centerline.  reads is the set of
\* (table, index) pairs read by subscripting; a subscript past the end of an
\* array raises IndexError, adding columns of different lengths ValueError.
plot_beam_size(tw, sv, scale) ==
    LET b == compute_beam_size(sv, tw)
        min_len == MinLen(Size(b.x), Size(b.theta))
        reads == {<<"twiss", i>> : i \in Range(min_len)}
                    \cup {<<"survey", i>> : i \in Range(min_len)}
        failed(status) ==
            [status |-> status, reads |-> reads, pts |-> <<>>,
             surface |-> [status |-> status, vertices |-> <<>>, faces |-> <<>>],
             center |-> <<>>]
    IN IF \E i \in Range(min_len) : i \notin DOMAIN b.x \/ i \notin DOMAIN b.theta
       THEN failed("IndexError")
       ELSE
         LET pts == [i \in Range(min_len) |->
                       ellipse(b.sigx[i].v * scale, b.sigy[i].v * scale,
                               b.x[i] * scale, b.y[i] * scale,
                               b.sx[i], b.sz[i], b.sy[i], b.theta[i]).points]
             surface == mesh_from_polygons(min_len, Resolution, pts, TRUE)
             sx == Take(b.sx, min_len)
             sy == Take(b.sy, min_len)
             sz == Take(b.sz, min_len)
             theta == Take(b.theta, min_len)
             x == Take(b.x, min_len)
             y == Take(b.y, min_len)
         IN IF surface.status /= "ok" \/ DOMAIN sx /= DOMAIN x
            THEN [failed("ValueError") EXCEPT !.pts = pts]
            ELSE [status |-> "ok", reads |-> reads, pts |-> pts,
                  surface |-> surface,
                  center |-> [i \in DOMAIN sx |->
                                << sx[i] + CosQ(theta[i]) * x[i] * scale,
                                   sz[i] + SinQ(theta[i]) * x[i] * scale,
                                   sy[i] + y[i] * scale >>]]

\* ---------------------------------------------------------------- plot_apertures
NpWhereIgnoringMask(mask) == Ascending(DOMAIN mask)

\* np.where(mask)[0]: the indices of the True entries, ascending
NpWhere(mask) == Ascending({i \in DOMAIN mask : mask[i]})

\* xs[i] * scale for a polygon array
Scaled(a, scale) == [k \in DOMAIN a |-> a[k] * scale]

\* plot_apertures, from the selected rows sv and ap on: one make_screen per
\* valid row, then the mesh.  An empty pts has no 3-part shape to unpack.
plot_apertures(ap, sv, close, scale) ==
    LET xs == ap.polygon_x_discrete
        ys == ap.polygon_y_discrete
        aper_indices == NpWhere(ap.aperture_mask)
        pts == [k \in Range(Len(aper_indices)) |->
                  LET i == aper_indices[k + 1]
                  IN make_screen(Scaled(xs[i], scale), Scaled(ys[i], scale),
                                 sv.X[i], sv.Z[i], sv.Y[i], sv.theta[i]).points]
        surface ==
            IF Len(aper_indices) = 0
            THEN [status |-> "ValueError", vertices |-> <<>>, faces |-> <<>>]
            ELSE mesh_from_polygons(Len(aper_indices), Size(xs[aper_indices[1]]),
                                    pts, close)
    IN [status |-> surface.status, aper_indices |-> aper_indices,
        pts |-> pts, surface |-> surface]

\* ---------------------------------------------------------------- inputs
MeshInputs ==
    {[num_polys |-> N, points_per_poly |-> P, pts |-> Polygons(N, P),
      close |-> close] :
        N \in 0 .. MaxSlices, P \in 1 .. MaxPoints, close \in BOOLEAN}

EllipseInputs ==
    {[rxy |-> rxy, rz |-> rz, beam_xy |-> beam_xy, beam_z |-> beam_z,
      x |-> pos[1], y |-> pos[2], z |-> pos[3], theta |-> theta,
      unit |-> Milli] :
        rxy \in 1 .. MaxRadius, rz \in 1 .. MaxRadius,
        beam_xy \in (-MaxCoord) .. MaxCoord, beam_z \in (-MaxCoord) .. MaxCoord,
        pos \in Positions, theta \in Thetas}

ScreenInputs ==
    UNION {{[xs |-> xs, ys |-> ys, x |-> pos[1], y |-> pos[2], z |-> pos[3],
             theta |-> theta, unit |-> 1] :
                xs \in [Range(P) -> (-1) .. MaxExtent],
                ys \in [Range(P) -> 0 .. MaxExtent],
                pos \in Positions, theta \in Thetas} : P \in ScreenSizes}

RectangleInputs ==
    {[x_min |-> x_min, x_max |-> x_max, y_min |-> y_min, y_max |-> y_max,
      x |-> pos[1], y |-> pos[2], z |-> pos[3], theta |-> theta,
      close |-> close, unit |-> 1] :
        x_min \in (-MaxExtent) .. (-1), x_max \in 1 .. MaxExtent,
        y_min \in (-MaxExtent) .. (-1), y_max \in 1 .. MaxExtent,
        pos \in Positions, theta \in Thetas, close \in BOOLEAN}

\* A column of one slice.
Row(v) == [i \in Range(1) |-> v]

\* One-slice optics tables for the envelope sizer.
SizerInputs ==
    {[twiss |-> [s |-> Row(0), x |-> Row(0), y |-> Row(0), betx |-> Row(bx),
                 bety |-> Row(by), dx |-> Row(dx), dy |-> Row(dy),
                 gamma0 |-> gamma0],
      survey |-> [X |-> Row(0), Y |-> Row(0), Z |-> Row(0), theta |-> Row(0)]] :
        bx \in (-1) .. MaxBeta, by \in (-1) .. MaxBeta,
        dx \in (-MaxDisp) .. MaxDisp, dy \in (-MaxDisp) .. MaxDisp,
        gamma0 \in Gammas}

\* Optics rows 0..n-1 and survey rows 0..m-1 of a beamline whose rows differ
\* from one another; theta0 is the orientation of the first survey frame.
TwissRows(n, gamma0) ==
    [s |-> [i \in Range(n) |-> i], x |-> [i \in Range(n) |-> i - 1],
     y |-> [i \in Range(n) |-> 1 - i], betx |-> [i \in Range(n) |-> 1 + (i % 2)],
     bety |-> [i \in Range(n) |-> i % 2], dx |-> [i \in Range(n) |-> 1 - i],
     dy |-> [i \in Range(n) |-> 0], gamma0 |-> gamma0]

SurveyRows(m, theta0) ==
    [X |-> [i \in Range(m) |-> i + 1], Y |-> [i \in Range(m) |-> -i],
     Z |-> [i \in Range(m) |-> 2 * i], theta |-> [i \in Range(m) |-> (theta0 + i) % 4]]

BeamInputs ==
    {[twiss |-> TwissRows(n, gamma0), survey |-> SurveyRows(m, theta0),
      scale |-> Scale] :
        n \in 1 .. MaxLen, m \in 1 .. MaxLen, gamma0 \in Gammas, theta0 \in Thetas}

\* Aperture rows 0..R-1 with a two-point polygon each, all rows different.
ApertureRows(mask) ==
    [polygon_x_discrete |-> [i \in DOMAIN mask |-> [k \in Range(2) |-> i + k + 1]],
     polygon_y_discrete |-> [i \in DOMAIN mask |-> [k \in Range(2) |-> k - i]],
     aperture_mask |-> mask]

ApertureInputs ==
    UNION {{[apertures |-> ApertureRows(mask), survey |-> SurveyRows(R, theta0),
             close |-> close, scale |-> Scale] :
                mask \in [Range(R) -> BOOLEAN], theta0 \in Thetas,
                close \in BOOLEAN} : R \in 1 .. MaxRows}

\* ---------------------------------------------------------------- actions
\* A call is pending: the function named by op is about to run on inp.
Init ==
    /\ pc = "call"
    /\ out = [status |-> "pending"]
    /\ \/ op = "mesh_from_polygons" /\ inp \in MeshInputs
       \/ op = "ellipse" /\ inp \in EllipseInputs
       \/ op = "make_screen" /\ inp \in ScreenInputs
       \/ op = "make_rectangular_screen" /\ inp \in RectangleInputs
       \/ op = "compute_beam_size" /\ inp \in SizerInputs
       \/ op = "plot_beam_size" /\ inp \in BeamInputs
       \/ op = "plot_apertures" /\ inp \in ApertureInputs

Return(f, result) ==
    /\ pc = "call"
    /\ op = f
    /\ out' = result
    /\ pc' = "done"
    /\ UNCHANGED <<op, inp>>

Mesh ==
    Return("mesh_from_polygons",
           mesh_from_polygons(inp.num_polys, inp.points_per_poly, inp.pts,
                              inp.close))

Ellipse ==
    Return("ellipse",
           ellipse(inp.rxy, inp.rz, inp.beam_xy, inp.beam_z,
                   inp.x, inp.y, inp.z, inp.theta))

MakeScreen ==
    Return("make_screen",
           make_screen(inp.xs, inp.ys, inp.x, inp.y, inp.z, inp.theta))

MakeRectangularScreen ==
    Return("make_rectangular_screen",
           make_rectangular_screen(inp.x_min, inp.x_max, inp.y_min, inp.y_max,
                                   inp.x, inp.y, inp.z, inp.theta, inp.close))

ComputeBeamSize ==
    Return("compute_beam_size", compute_beam_size(inp.survey, inp.twiss))

PlotBeamSize ==
    Return("plot_beam_size", plot_beam_size(inp.twiss, inp.survey, inp.scale))

PlotApertures ==
    Return("plot_apertures",
           plot_apertures(inp.apertures, inp.survey, inp.close, inp.scale))

Next ==
    \/ Mesh
    \/ Ellipse
    \/ MakeScreen
    \/ MakeRectangularScreen
    \/ ComputeBeamSize
    \/ PlotBeamSize
    \/ PlotApertures

Spec == Init /\ [][Next]_vars

\* ---------------------------------------------------------------- claims
Done(f) == pc = "done" /\ op = f

IsMesh == Done("mesh_from_polygons")

\* Flattened index of vertex j of slice i.
Flat(i, j) == i * inp.points_per_poly + j

\* C1: with close=True and N >= 2 slices of P >= 1 points the mesher returns
\* exactly P*(N-1) quad faces.
C1_ClosedFaceCount ==
    (IsMesh /\ inp.close /\ inp.num_polys >= 2)
        => /\ out.status = "ok"
           /\ Size(out.faces) = inp.points_per_poly * (inp.num_polys - 1)

\* C2: with close=False, N >= 2 and P >= 2 the mesher returns (P-1)*(N-1)
\* faces: per slice pair every face except the one starting at j = P-1.
C2_OpenFaceCount ==
    (IsMesh /\ ~inp.close /\ inp.num_polys >= 2 /\ inp.points_per_poly >= 2)
        => /\ out.status = "ok"
           /\ Size(out.faces)
                = (inp.points_per_poly - 1) * (inp.num_polys - 1)
           /\ {out.faces[k][2] : k \in DOMAIN out.faces}
                = {Flat(i, j) : i \in Range(inp.num_polys - 1),
                                j \in Range(inp.points_per_poly - 1)}

C2_Witness ==
    /\ IsMesh /\ ~inp.close /\ inp.num_polys = 3 /\ inp.points_per_poly = 3
    /\ out.status = "ok" /\ Size(out.faces) = 4

\* C3: every face joins (i,j), (i,j+1 mod P), (i+1,j+1 mod P), (i+1,j) of
\* two consecutive slices i and i+1, in that order.
C3_FaceShape ==
    (IsMesh /\ out.status = "ok")
        => \A k \in DOMAIN out.faces :
            \E i \in Range(inp.num_polys - 1), j \in Range(inp.points_per_poly) :
                LET j1 == (j + 1) % inp.points_per_poly
                IN out.faces[k] =
                     <<4, Flat(i, j), Flat(i, j1), Flat(i + 1, j1), Flat(i + 1, j)>>

\* C4: fewer than two slices give a mesh with zero faces and no error.
C4_DegenerateIsEmptyMesh ==
    (IsMesh /\ inp.num_polys < 2)
        => (out.status = "ok" /\ Size(out.faces) = 0)

\* C10: for N >= 2 and P >= 2 every vertex index of every face is in
\* [0, N*P), and the vertex buffer has N*P rows, row i*P+j being vertex j
\* of slice i.
C10_IndicesInBuffer ==
    (IsMesh /\ inp.num_polys >= 2 /\ inp.points_per_poly >= 2)
        => /\ out.status = "ok"
           /\ DOMAIN out.vertices = Range(inp.num_polys * inp.points_per_poly)
           /\ \A i \in Range(inp.num_polys), j \in Range(inp.points_per_poly) :
                out.vertices[Flat(i, j)] = inp.pts[i][j]
           /\ \A k \in DOMAIN out.faces : \A c \in 2 .. 5 :
                out.faces[k][c] \in DOMAIN out.vertices

C10_Witness ==
    /\ IsMesh /\ inp.close /\ inp.num_polys = 3 /\ inp.points_per_poly = 2
    /\ out.status = "ok"
    /\ \E k \in DOMAIN out.faces :
         out.faces[k][4] = inp.num_polys * inp.points_per_poly - 1
\* C5: the 20 parameter angles of the ellipse are pairwise distinct modulo a
\* full turn, so the last point does not repeat the first.
C5_AnglesDistinct ==
    Done("ellipse")
        => /\ Size(out.ts) = Resolution
           /\ \A k, l \in DOMAIN out.ts :
                k /= l => (out.ts[k] % FullTurn) /= (out.ts[l] % FullTurn)
           /\ out.points[Resolution - 1] /= out.points[0]

IsConstructor == pc = "done" /\ op \in {"ellipse", "make_screen", "make_rectangular_screen"}

\* World coordinates reconstructed from a local point (lx, 0, ly) for
\* theta = 0, pi/2 and pi: the local point turned about the z-axis, then
\* moved by the world position, which is not turned.
Reconstruct(theta, p, x, y, z) ==
    CASE theta = 0 -> <<x + p[1], y, z + p[3]>>
      [] theta = 1 -> <<x, y + p[1], z + p[3]>>
      [] theta = 2 -> <<x - p[1], y, z + p[3]>>

\* C9: for theta in {0, pi/2, pi} every point of ellipse, make_screen and
\* make_rectangular_screen is its local point rotated about z by theta and
\* then translated by the unrotated world position.
C9_RotateThenTranslate ==
    (IsConstructor /\ inp.theta \in {0, 1, 2})
        => /\ DOMAIN out.points = DOMAIN out.local
           /\ \A k \in DOMAIN out.points :
                /\ out.local[k][2] = 0
                /\ out.points[k] =
                     Reconstruct(inp.theta, out.local[k], inp.x * inp.unit,
                                 inp.y * inp.unit, inp.z * inp.unit)

C9_Witness ==
    /\ Done("make_rectangular_screen") /\ inp.theta = 1
    /\ inp.x = 1 /\ inp.y = -1 /\ inp.x_min = -2 /\ inp.close
    /\ out.points[1] = <<1, -3, inp.z + inp.y_min>>
\* C8: for every slice with betx >= 0 and bety >= 0 the sizer returns
\* sigx >= 0 and sigy >= 0, sigx being n_sigmas*sqrt(nemitt_x/gamma0*betx)
\* + |dx|*sigma_delta and sigy likewise.
C8_SigmaNonNegative ==
    Done("compute_beam_size")
        => LET tw == inp.twiss
               \* v = n_sigmas*sqrt(nemitt/gamma0*beta) + |d|*sigma_delta
               formula(v, nemitt, beta, d) ==
                   \E r \in 0 .. v :
                       /\ r * r <= (nemitt \div tw.gamma0) * beta
                       /\ (nemitt \div tw.gamma0) * beta < (r + 1) * (r + 1)
                       /\ v = n_sigmas * r + sigma_delta * (IF d < 0 THEN -d ELSE d)
           IN \A i \in DOMAIN tw.betx :
                (tw.betx[i] >= 0 /\ tw.bety[i] >= 0)
                   => /\ ~out.sigx[i].nan /\ out.sigx[i].v >= 0
                      /\ ~out.sigy[i].nan /\ out.sigy[i].v >= 0
                      /\ formula(out.sigx[i].v, nemitt_x, tw.betx[i], tw.dx[i])
                      /\ formula(out.sigy[i].v, nemitt_y, tw.bety[i], tw.dy[i])

C8_Witness ==
    /\ Done("compute_beam_size")
    /\ inp.twiss.betx[0] = 0 /\ inp.twiss.bety[0] = 1
    /\ inp.twiss.dx[0] = -1 /\ inp.twiss.dy[0] = -1
    /\ out.sigx[0] = Float(sigma_delta)
    /\ out.sigy[0].v > sigma_delta

\* C6: plot_apertures builds one cross-section per row whose mask is True,
\* in the rows' order, each from the polygon and survey frame of that row;
\* rows whose mask is False contribute nothing.
C6_OneScreenPerValidRow ==
    Done("plot_apertures")
        => LET mask == inp.apertures.aperture_mask
               valid == {i \in DOMAIN mask : mask[i]}
               rank(i) == Cardinality({h \in valid : h < i})
               screen(i) ==
                   make_screen(Scaled(inp.apertures.polygon_x_discrete[i], inp.scale),
                               Scaled(inp.apertures.polygon_y_discrete[i], inp.scale),
                               inp.survey.X[i], inp.survey.Z[i],
                               inp.survey.Y[i], inp.survey.theta[i]).points
           IN /\ Size(out.pts) = Cardinality(valid)
              /\ \A i \in valid : out.pts[rank(i)] = screen(i)

C6_Witness ==
    /\ Done("plot_apertures")
    /\ inp.apertures.aperture_mask = [i \in Range(3) |-> i /= 1]
    /\ Size(out.pts) = 2
    /\ out.aper_indices = <<0, 2>>

\* C7: with n optics rows and m survey rows, both at least 2 and differing
\* by at most one, plot_beam_size builds min(n, m) ellipses and min(n, m)
\* centerline points, reads no array past its end and does not raise.
C7_TruncateToShorter ==
    Done("plot_beam_size")
        => LET n == Size(inp.twiss.x)
               m == Size(inp.survey.theta)
               shorter == CHOOSE k \in {n, m} : k <= n /\ k <= m
           IN (n >= 2 /\ m >= 2 /\ n - m \in {-1, 0, 1})
                => /\ out.status = "ok"
                   /\ Size(out.pts) = shorter
                   /\ Size(out.center) = shorter
                   /\ \A r \in out.reads :
                        /\ r[1] = "twiss" => r[2] \in Range(n)
                        /\ r[1] = "survey" => r[2] \in Range(m)

C7_Witness ==
    /\ Done("plot_beam_size")
    /\ Size(inp.twiss.x) = 3 /\ Size(inp.survey.theta) = 2
    /\ out.status = "ok" /\ Size(out.pts) = 2 /\ Size(out.center) = 2
====
